---- MODULE Spec2Model ----
(***************************************************************************)
(* Model of the incident.io -> Jira webhook relay                          *)
(* (src/incident-jira-webhook.go).                                         *)
(*                                                                         *)
(* Strings whose characters the code inspects (object keys, attribute      *)
(* names, the workspace id and the composite ids built from them) are      *)
(* sequences of one-character strings.  Strings the code only compares or  *)
(* passes on (event kinds, field names, issue keys, catalog ids, field     *)
(* ids) are TLA+ strings.                                                  *)
(***************************************************************************)
EXTENDS Integers, Sequences, FiniteSets, TLC

VARIABLES
    cfg,         \* s.config, read-only after NewIncidentJiraSync
    req,         \* the inbound HTTP request: method, body, decoded payload
    pc,          \* position of the handler goroutine
    resp,        \* what the handler wrote to the ResponseWriter
    calls,       \* history of upstream HTTP calls, oldest first
    i,           \* processIncidentUpdate: index of the current fieldEntry
    m,           \* processIncidentUpdate: which of the two name checks is next
    j,           \* processComponentField: index of the current value
    jiraValues,  \* processComponentField: jiraValues
    arg,         \* argument of the function under test (function specifications)
    ret,         \* its result
    other        \* the request, position and locals of a second handler
                 \* goroutine, while it is not the one taking steps

vars == <<cfg, req, pc, resp, calls, i, m, j, jiraValues, arg, ret, other>>

----------------------------------------------------------------------------
(* Bounds of the model *)

\* largest incident sub-object: its entries plus their values, counted together
MaxSize == 4
\* longest enumerated object key
MaxKeyLen == 4
\* most attributes in a fetched catalog schema
MaxAttrs == 2
\* most calls of the formatter on one numeric id
MaxFormatCalls == 2

----------------------------------------------------------------------------
(* HTTP status codes (net/http) used by the code *)

StatusOK == 200
StatusNoContent == 204
StatusBadRequest == 400
StatusMethodNotAllowed == 405
StatusInternalServerError == 500

----------------------------------------------------------------------------
(* Characters and strings *)

Digits == {"0", "1", "2", "3", "4", "5", "6", "7", "8", "9"}

IsDigit(c) == c \in Digits

DigitVal(c) ==
    CASE c = "0" -> 0 [] c = "1" -> 1 [] c = "2" -> 2 [] c = "3" -> 3
      [] c = "4" -> 4 [] c = "5" -> 5 [] c = "6" -> 6 [] c = "7" -> 7
      [] c = "8" -> 8 [] c = "9" -> 9

AllDigits(s) == \A k \in 1..Len(s) : IsDigit(s[k])

Min(S) == CHOOSE x \in S : \A y \in S : x <= y

\* all sequences over S of length at most n
RECURSIVE SeqsUpTo(_, _)
SeqsUpTo(S, n) ==
    IF n = 0 THEN {<<>>}
    ELSE LET shorter == SeqsUpTo(S, n - 1)
         IN  shorter \cup {Append(s, x) : s \in {t \in shorter : Len(t) = n - 1}, x \in S}

\* strings.ToLower on one character, for the letters the model's names use
LowerChar(c) ==
    CASE c = "O" -> "o" [] c = "B" -> "b" [] c = "J" -> "j" [] c = "E" -> "e"
      [] c = "C" -> "c" [] c = "T" -> "t" [] c = "K" -> "k" [] c = "Y" -> "y"
      [] c = "N" -> "n" [] c = "A" -> "a" [] c = "M" -> "m"
      [] OTHER -> c

ToLower(s) == [k \in 1..Len(s) |-> LowerChar(s[k])]

\* the literal "object key" of line 180
ObjectKeyLiteral == <<"o", "b", "j", "e", "c", "t", " ", "k", "e", "y">>

----------------------------------------------------------------------------
(* strconv.Atoi, as far as its error result goes (64-bit int) *)

MaxInt64Digits ==
    <<"9","2","2","3","3","7","2","0","3","6","8","5","4","7","7","5","8","0","7">>

RECURSIVE StripZeros(_)
StripZeros(s) ==
    IF Len(s) > 0 /\ s[1] = "0" THEN StripZeros(Tail(s)) ELSE s

\* a <= b for digit strings of the same length
RECURSIVE DigitsLeq(_, _)
DigitsLeq(a, b) ==
    IF Len(a) = 0 THEN TRUE
    ELSE IF DigitVal(a[1]) < DigitVal(b[1]) THEN TRUE
    ELSE IF DigitVal(a[1]) > DigitVal(b[1]) THEN FALSE
    ELSE DigitsLeq(Tail(a), Tail(b))

\* the magnitude d (no leading zeros) fits: at most 2^63-1, or 2^63 when negative
FitsInt64(d, neg) ==
    \/ Len(d) < Len(MaxInt64Digits)
    \/ /\ Len(d) = Len(MaxInt64Digits)
       /\ \/ DigitsLeq(d, MaxInt64Digits)
          \/ neg /\ d = [MaxInt64Digits EXCEPT ![Len(MaxInt64Digits)] = "8"]

\* TRUE iff strconv.Atoi(s) returns a nil error
AtoiOK(s) ==
    /\ Len(s) > 0
    /\ LET signed == s[1] \in {"+", "-"}
           body   == IF signed THEN Tail(s) ELSE s
       IN  /\ Len(body) > 0
           /\ AllDigits(body)
           /\ FitsInt64(StripZeros(body), s[1] = "-")

----------------------------------------------------------------------------
(* Reference Extractor and Value Formatter *)

Err == [ok |-> FALSE, val |-> <<>>]
Ok(v) == [ok |-> TRUE, val |-> v]

\* positions where the regexp -(\d+)$ matches
RegexMatches(s) ==
    {k \in 1..Len(s) : /\ s[k] = "-"
                       /\ k < Len(s)
                       /\ \A n \in (k + 1)..Len(s) : IsDigit(s[n])}

extractJiraObjectID(objectKey) ==
    IF objectKey = <<>> THEN Err
    ELSE IF RegexMatches(objectKey) # {}
         THEN Ok(SubSeq(objectKey, Min(RegexMatches(objectKey)) + 1, Len(objectKey)))
    ELSE IF AtoiOK(objectKey) THEN Ok(objectKey)
    ELSE Err

\* line 222 without the workspace prefix
formatJiraComponentValueBare(objectID, catalogEntryID) ==
    [id |-> objectID, objectId |-> objectID]

\* line 222 building the id from the catalog entry id
formatJiraComponentValueByEntry(objectID, catalogEntryID) ==
    [id       |-> cfg.JiraWorkspaceID \o <<":">> \o <<catalogEntryID>>,
     objectId |-> objectID]

formatJiraComponentValue(objectID, catalogEntryID) ==
    [id       |-> cfg.JiraWorkspaceID \o <<":">> \o objectID,
     objectId |-> objectID]

----------------------------------------------------------------------------
(* Catalog Resolver *)

\* http.NewRequest fails when the URL does not parse; "%zz" is an invalid escape
NewRequestOK(urlPart) == urlPart # "%zz"

\* index of the first schema attribute named "object key", 0 if there is none
ObjectKeyAttrIndex(attributes) ==
    LET hits == {k \in 1..Len(attributes) : ToLower(attributes[k].Name) = ObjectKeyLiteral}
    IN  IF hits = {} THEN 0 ELSE Min(hits)

\* getCatalogEntryObjectKey without the status check of line 167
getCatalogEntryObjectKeyAnyStatus(catalogEntryID, r) ==
    IF ~NewRequestOK(catalogEntryID) THEN Err
    ELSE IF ~r.transportOK THEN Err
    ELSE IF ~r.decodable THEN Err
    ELSE LET k == ObjectKeyAttrIndex(r.Attributes)
             objectKeyAttrID == IF k = 0 THEN "" ELSE r.Attributes[k].ID
         IN  IF objectKeyAttrID # "" /\ objectKeyAttrID \in DOMAIN r.AttributeValues
             THEN Ok(r.AttributeValues[objectKeyAttrID])
             ELSE Err

\* the result of getCatalogEntryObjectKey when s.client.Do answers r
getCatalogEntryObjectKey(catalogEntryID, r) ==
    IF ~NewRequestOK(catalogEntryID) THEN Err
    ELSE IF ~r.transportOK THEN Err
    ELSE IF r.StatusCode # StatusOK THEN Err
    ELSE IF ~r.decodable THEN Err
    ELSE LET k == ObjectKeyAttrIndex(r.Attributes)
             objectKeyAttrID == IF k = 0 THEN "" ELSE r.Attributes[k].ID
         IN  IF objectKeyAttrID # "" /\ objectKeyAttrID \in DOMAIN r.AttributeValues
             THEN Ok(r.AttributeValues[objectKeyAttrID])
             ELSE Err

\* object keys and attribute names, spelled out
KeyPIN3 == <<"P", "I", "N", "-", "3">>
KeySUP == <<"S", "U", "P", "-", "2", "0", "2", "4", "-", "1", "0">>
KeyNOHYPHEN == <<"N", "O", "H", "Y", "P", "H", "E", "N">>
Key42 == <<"4", "2">>
NameObjectKey == <<"O", "b", "j", "e", "c", "t", " ", "K", "e", "y">>
NameOBJECTKEY == <<"O", "B", "J", "E", "C", "T", " ", "K", "E", "Y">>
NameObjectKeys == <<"o", "b", "j", "e", "c", "t", " ", "k", "e", "y", "s">>
NameName == <<"N", "a", "m", "e">>

NoBody == [Attributes |-> <<>>, AttributeValues |-> <<>>]

TransportError ==
    [transportOK |-> FALSE, StatusCode |-> 0, decodable |-> FALSE] @@ NoBody

\* a 200 answer whose schema names the attribute "Object Key" and whose
\* entry holds the literal key for it
Found(key) ==
    [transportOK |-> TRUE, StatusCode |-> StatusOK, decodable |-> TRUE,
     Attributes |-> <<[ID |-> "a0", Name |-> NameName], [ID |-> "a1", Name |-> NameObjectKey]>>,
     AttributeValues |-> [a \in {"a0", "a1"} |-> IF a = "a1" THEN key ELSE <<"x">>]]

\* a catalog miss
NotFound ==
    [transportOK |-> TRUE, StatusCode |-> 404, decodable |-> TRUE] @@ NoBody

\* the answers of the catalog API the handler is run against
CatalogAnswers == {NotFound, Found(KeyPIN3), Found(KeySUP), Found(KeyNOHYPHEN)}

----------------------------------------------------------------------------
(* Configuration and inbound events *)

EventFieldUpdated == "incident.custom_field_updated"
EventUpdatedV2 == "public_incident.incident_updated_v2"
EventTypes == {EventFieldUpdated, EventUpdatedV2, "incident.created"}

ImpactedName == "Impacted component"
ResponsibleName == "Responsible components"
FieldNames == {ImpactedName, ResponsibleName, "Severity"}

\* getConfig with the default field names (lines 457 and 459)
DefaultConfig ==
    [JiraWorkspaceID                 |-> <<"w", "s", "1">>,
     ImpactedComponentFieldName      |-> ImpactedName,
     ImpactedComponentJiraFieldID    |-> "customfield_10234",
     ResponsibleComponentFieldName   |-> ResponsibleName,
     ResponsibleComponentJiraFieldID |-> "customfield_10235"]

\* RESPONSIBLE_COMPONENT_FIELD_NAME set to the name of the impacted field
SameNameConfig ==
    [DefaultConfig EXCEPT !.ResponsibleComponentFieldName = ImpactedName]

getFieldMappings ==
    [impacted_components |->
        [IncidentFieldName |-> cfg.ImpactedComponentFieldName,
         JiraFieldID       |-> cfg.ImpactedComponentJiraFieldID],
     responsible_components |->
        [IncidentFieldName |-> cfg.ResponsibleComponentFieldName,
         JiraFieldID       |-> cfg.ResponsibleComponentJiraFieldID]]

\* Value.ValueCatalogEntry is a pointer: <<>> is nil, <<e>> points to e.
\* Catalog ids and issue keys of the model are URL-safe.
CatalogIDs == {"c1", "c2"}
ValueKinds ==
    {[ValueCatalogEntry |-> <<>>]}
    \cup {[ValueCatalogEntry |-> <<[ID |-> id]>>] : id \in CatalogIDs \cup {""}}

EntriesWith(n) ==
    [CustomField : [Name : FieldNames], Values : SeqsUpTo(ValueKinds, n)]

\* sequences of entries whose entries and values number at most n in all
RECURSIVE EntrySeqs(_)
EntrySeqs(n) ==
    IF n = 0 THEN {<<>>}
    ELSE {<<>>} \cup
         UNION { { <<e>> \o rest : rest \in EntrySeqs(n - 1 - Len(e.Values)) }
                 : e \in EntriesWith(n - 1) }

SubObject(issue, entries) ==
    [ExternalIssueReference |-> [IssueName |-> issue],
     CustomFieldEntries     |-> entries]

\* the zero value of a sub-object the JSON document does not carry
Absent == SubObject("", <<>>)

\* the sub-object the event kind does not select carries another incident:
\* another issue and a matching entry of its own
Decoy ==
    SubObject("PIN-9",
              <<[CustomField |-> [Name |-> ImpactedName],
                 Values |-> <<[ValueCatalogEntry |-> <<[ID |-> "c9"]>>]>>]>>)

Payload(t, sel) ==
    [EventType |-> t,
     Incident |-> IF t = EventUpdatedV2 THEN Decoy ELSE sel,
     PublicIncidentUpdatedV2 |-> IF t = EventUpdatedV2 THEN sel ELSE Decoy]

\* decoded payloads: every selected sub-object of size at most n
Payloads(n) ==
    { Payload(t, SubObject(k, es)) :
        t \in EventTypes, k \in {"", "PIN-7"}, es \in EntrySeqs(n) }

Backed(id) == [ValueCatalogEntry |-> <<[ID |-> id]>>]

\* a larger event: two values for the impacted field, then one for the
\* responsible field
TwoFields ==
    Payload(EventFieldUpdated,
            SubObject("PIN-7",
                      <<[CustomField |-> [Name |-> ImpactedName],
                         Values |-> <<Backed("c1"), Backed("c2")>>],
                        [CustomField |-> [Name |-> ResponsibleName],
                         Values |-> <<Backed("c2")>>]>>))

EmptyPayload ==
    [EventType |-> "", Incident |-> Absent, PublicIncidentUpdatedV2 |-> Absent]

\* what json.Unmarshal leaves in the struct when it returns an error:
\* nothing after a syntax error, the fields it could decode after a type
\* mismatch in another field
PartialPayloads ==
    {EmptyPayload, TwoFields, [EmptyPayload EXCEPT !.EventType = "incident.created"]}

Requests(n) ==
    { [method |-> "POST", body |-> "json", payload |-> p] : p \in Payloads(n) \cup {TwoFields} }
    \cup { [method |-> "GET", body |-> "json", payload |-> EmptyPayload],
           [method |-> "POST", body |-> "unreadable", payload |-> EmptyPayload] }
    \cup { [method |-> "POST", body |-> "malformed", payload |-> p] : p \in PartialPayloads }

NoResponse == [StatusCode |-> 0, Body |-> "none"]

\* no second request is in flight
NoHandler == <<>>

----------------------------------------------------------------------------
(* Field Updater *)

\* the answers of the Jira API the handler is run against
JiraAnswers ==
    {[transportOK |-> FALSE, StatusCode |-> 0]}
    \cup [transportOK : {TRUE}, StatusCode : {StatusOK, StatusNoContent, StatusBadRequest}]

\* updateJiraCustomField without the status check of line 271
updateJiraCustomFieldAnyStatus(jiraIssueKey, fieldID, values, a) ==
    NewRequestOK(jiraIssueKey) /\ a.transportOK

\* line 271 accepting every 2xx status
updateJiraCustomFieldAny2xx(jiraIssueKey, fieldID, values, a) ==
    /\ NewRequestOK(jiraIssueKey)
    /\ a.transportOK
    /\ a.StatusCode \in 200..299

\* TRUE iff updateJiraCustomField returns nil when client.Do answers a
updateJiraCustomField(jiraIssueKey, fieldID, values, a) ==
    /\ NewRequestOK(jiraIssueKey)
    /\ a.transportOK
    /\ ~(a.StatusCode # StatusNoContent /\ a.StatusCode # StatusOK /\ a.StatusCode # 204)

\* line 317 writing whatever the list holds
HasValuesAlways(values) == TRUE

\* line 317: there is something to write
HasValues(values) == Len(values) > 0

\* line 321 retrying whatever the length of the list
ShouldRetryAlways(failed, values) == failed /\ Len(values) > 0

\* line 321: the condition of the single-value retry
ShouldRetry(failed, values) == failed /\ Len(values) > 1

\* line 323 submitting the whole list again
FallbackValuesAll(values) == values

\* line 323 taking the last value
FallbackValuesLast(values) == <<values[Len(values)]>>

\* line 323: what the retry submits
FallbackValues(values) == <<values[1]>>

\* an upstream call with the answer it got: the GET of line 161
LookupCall(catalogEntryID, r) ==
    [op |-> "GET", id |-> catalogEntryID, answer |-> r]

\* lines 244-248 setting both mapped fields
WriteCallBothFields(jiraIssueKey, fieldID, values, a) ==
    [op |-> "PUT", issue |-> jiraIssueKey,
     Fields |-> (cfg.ImpactedComponentJiraFieldID :> values)
                @@ (cfg.ResponsibleComponentJiraFieldID :> values),
     answer |-> a]

\* the PUT of line 265 with its URL's issue key and its payload's fields
WriteCall(jiraIssueKey, fieldID, values, a) ==
    [op |-> "PUT", issue |-> jiraIssueKey, Fields |-> (fieldID :> values), answer |-> a]

----------------------------------------------------------------------------
(* Sync Orchestrator: webhookHandler -> processIncidentUpdate ->            *)
(* processComponentField, one action per stretch of code that ends with    *)
(* an upstream call or a return                                            *)

\* line 413 going on with whatever was decoded
UnmarshalFailedNever(body) == FALSE

\* line 413: json.Unmarshal returned an error
UnmarshalFailed(body) == body = "malformed"

\* line 423 letting every event kind through
IsUpdateEventAny(eventType) == TRUE

\* line 423: the event kinds that are processed
IsUpdateEvent(eventType) ==
    ~(eventType # EventFieldUpdated /\ eventType # EventUpdatedV2)

\* lines 342-346 taking the default sub-object whatever the kind
SelectIncidentDefault(incidentData) == incidentData.Incident

\* lines 342-346: the sub-object the event kind selects
SelectIncident(incidentData) ==
    IF incidentData.EventType = EventUpdatedV2
    THEN incidentData.PublicIncidentUpdatedV2
    ELSE incidentData.Incident

\* line 350 never reporting a missing issue key
NoLinkedIssueNever(key) == FALSE

\* line 350
NoLinkedIssue(key) == key = ""

\* lines 286-293 without the check of the id of lines 291-293
NotCatalogBackedNilOnly(value) == value.ValueCatalogEntry = <<>>

\* lines 286-293: the value carries no catalog entry to look up
NotCatalogBacked(value) ==
    \/ value.ValueCatalogEntry = <<>>
    \/ value.ValueCatalogEntry # <<>> /\ value.ValueCatalogEntry[1].ID = ""

\* lines 297-311 without the error check of lines 304-307
ResolvedUnchecked(values, objectKey, objectID, catalogEntryID) ==
    IF ~objectKey.ok THEN values
    ELSE Append(values, formatJiraComponentValue(objectID.val, catalogEntryID))

\* lines 297-311: jiraValues after one value's lookup and extraction
Resolved(values, objectKey, objectID, catalogEntryID) ==
    IF ~objectKey.ok THEN values
    ELSE IF ~objectID.ok THEN values
    ELSE Append(values, formatJiraComponentValue(objectID.val, catalogEntryID))

incident == SelectIncident(req.payload)
jiraIssueKey == incident.ExternalIssueReference.IssueName
fieldEntry == incident.CustomFieldEntries[i]

\* lines 362 and 371 in the other order
fieldMappingResponsibleFirst ==
    IF m = 1 THEN getFieldMappings.responsible_components
    ELSE getFieldMappings.impacted_components

\* the mapping processComponentField was called with
fieldMapping ==
    IF m = 1 THEN getFieldMappings.impacted_components
    ELSE getFieldMappings.responsible_components

Respond(status, body) ==
    /\ resp' = [StatusCode |-> status, Body |-> body]
    /\ pc' = "done"

\* line 329 followed by line 358 taking the same entry again
ReturnNilSameEntry ==
    /\ pc' = "entry"
    /\ i' = i /\ m' = m
    /\ resp' = resp

\* processComponentField returned nil: on to the next name check (line 370)
\* or the next entry (line 358)
ReturnNil ==
    /\ pc' = "entry"
    /\ IF m = 1 THEN m' = 2 /\ i' = i ELSE m' = 1 /\ i' = i + 1
    /\ resp' = resp

\* lines 364-367 / 373-376 logging the error without returning it
ReturnErrLogged ==
    /\ pc' = "entry"
    /\ IF m = 1 THEN m' = 2 /\ i' = i ELSE m' = 1 /\ i' = i + 1
    /\ resp' = resp

\* processComponentField returned an error: lines 364-367 / 373-376 return
\* it, lines 431-435 answer 500
ReturnErr ==
    /\ Respond(StatusInternalServerError, "Processing failed")
    /\ UNCHANGED <<i, m>>

\* webhookHandler up to the call of processIncidentUpdate, and
\* processIncidentUpdate up to its loop
WebhookHandler ==
    /\ pc = "start"
    /\ UNCHANGED <<cfg, req, calls, i, m, j, jiraValues, arg, ret, other>>
    /\ IF req.method # "POST"
       THEN Respond(StatusMethodNotAllowed, "Method not allowed")
       ELSE IF req.body = "unreadable"
       THEN Respond(StatusBadRequest, "Failed to read body")
       ELSE IF UnmarshalFailed(req.body)
       THEN Respond(StatusBadRequest, "Invalid JSON payload")
       ELSE IF ~IsUpdateEvent(req.payload.EventType)
       THEN Respond(StatusOK, "ignored")
       ELSE IF NoLinkedIssue(jiraIssueKey)
       THEN Respond(StatusInternalServerError, "Processing failed")
       ELSE pc' = "entry" /\ resp' = resp

\* line 358 with no entry left: line 380 returns nil, lines 437-439 answer
LoopEnd ==
    /\ pc = "entry"
    /\ i > Len(incident.CustomFieldEntries)
    /\ Respond(StatusOK, "success")
    /\ UNCHANGED <<cfg, req, calls, i, m, j, jiraValues, arg, ret, other>>

\* line 362 (m = 1) and line 371 (m = 2): the name check of one mapping
CheckName ==
    /\ pc = "entry"
    /\ i <= Len(incident.CustomFieldEntries)
    /\ IF fieldEntry.CustomField.Name = fieldMapping.IncidentFieldName
       THEN /\ pc' = "values"
            /\ j' = 1
            /\ jiraValues' = <<>>
            /\ UNCHANGED <<i, m>>
       ELSE /\ pc' = "entry"
            /\ IF m = 1 THEN m' = 2 /\ i' = i ELSE m' = 1 /\ i' = i + 1
            /\ UNCHANGED <<j, jiraValues>>
    /\ UNCHANGED <<cfg, req, resp, calls, arg, ret, other>>

\* lines 286-293: a value that is not catalog-backed
SkipValue ==
    /\ pc = "values"
    /\ j <= Len(fieldEntry.Values)
    /\ NotCatalogBacked(fieldEntry.Values[j])
    /\ j' = j + 1
    /\ UNCHANGED <<cfg, req, pc, resp, calls, i, m, jiraValues, arg, ret, other>>

\* lines 295-313: one catalog lookup, extraction and formatting
ResolveValue ==
    /\ pc = "values"
    /\ j <= Len(fieldEntry.Values)
    /\ ~NotCatalogBacked(fieldEntry.Values[j])
    /\ LET catalogEntry == fieldEntry.Values[j].ValueCatalogEntry[1]
       IN  \E r \in CatalogAnswers :
             LET objectKey == getCatalogEntryObjectKey(catalogEntry.ID, r)
                 objectID  == extractJiraObjectID(objectKey.val)
             IN  /\ calls' = IF NewRequestOK(catalogEntry.ID)
                             THEN Append(calls, LookupCall(catalogEntry.ID, r))
                             ELSE calls
                 /\ jiraValues' = Resolved(jiraValues, objectKey, objectID, catalogEntry.ID)
    /\ j' = j + 1
    /\ UNCHANGED <<cfg, req, pc, resp, i, m, arg, ret, other>>

\* lines 316-329: the batch write, or nothing for an empty list
UpdateField ==
    /\ pc = "values"
    /\ j > Len(fieldEntry.Values)
    /\ UNCHANGED <<cfg, req, j, jiraValues, arg, ret, other>>
    /\ IF HasValues(jiraValues)
       THEN \E a \in JiraAnswers :
              LET ok == updateJiraCustomField(jiraIssueKey, fieldMapping.JiraFieldID,
                                              jiraValues, a)
              IN  /\ calls' = IF NewRequestOK(jiraIssueKey)
                              THEN Append(calls, WriteCall(jiraIssueKey,
                                                fieldMapping.JiraFieldID, jiraValues, a))
                              ELSE calls
                  /\ IF ShouldRetry(~ok, jiraValues)
                     THEN pc' = "fallback" /\ UNCHANGED <<resp, i, m>>
                     ELSE IF ok THEN ReturnNil ELSE ReturnErr
       ELSE ReturnNil /\ calls' = calls

\* line 323: the retry with the first value
Fallback ==
    /\ pc = "fallback"
    /\ UNCHANGED <<cfg, req, j, jiraValues, arg, ret, other>>
    /\ \E a \in JiraAnswers :
         /\ calls' = IF NewRequestOK(jiraIssueKey)
                     THEN Append(calls, WriteCall(jiraIssueKey, fieldMapping.JiraFieldID,
                                                  FallbackValues(jiraValues), a))
                     ELSE calls
         /\ IF updateJiraCustomField(jiraIssueKey, fieldMapping.JiraFieldID,
                                     FallbackValues(jiraValues), a)
            THEN ReturnNil
            ELSE ReturnErr

\* the process after startup with one request received: every request up to
\* MaxSize under the default configuration, the smaller ones under the
\* configuration that maps both fields to one name (each entry is then
\* processed twice)
Init ==
    /\ \/ cfg = DefaultConfig /\ req \in Requests(MaxSize)
       \/ cfg = SameNameConfig /\ req \in Requests(MaxSize - 2)
    /\ pc = "start"
    /\ resp = NoResponse
    /\ calls = <<>>
    /\ i = 1
    /\ m = 1
    /\ j = 1
    /\ jiraValues = <<>>
    /\ arg = <<>>
    /\ ret = Err
    /\ other = NoHandler

Next ==
    \/ WebhookHandler
    \/ LoopEnd
    \/ CheckName
    \/ SkipValue
    \/ ResolveValue
    \/ UpdateField
    \/ Fallback

Spec == Init /\ [][Next]_vars

\* the handler goroutine keeps running and every upstream call returns:
\* client.Do is a blocking call the handler waits for (lines 161 and 265)
InitLive ==
    /\ \/ cfg = DefaultConfig /\ req \in Requests(MaxSize - 1)
       \/ cfg = SameNameConfig /\ req \in Requests(MaxSize - 2)
    /\ pc = "start"
    /\ resp = NoResponse
    /\ calls = <<>>
    /\ i = 1
    /\ m = 1
    /\ j = 1
    /\ jiraValues = <<>>
    /\ arg = <<>>
    /\ ret = Err
    /\ other = NoHandler

SpecLive == InitLive /\ [][Next]_vars /\ WF_vars(Next)

----------------------------------------------------------------------------
(* Two requests in flight: net/http serves each request in a goroutine of  *)
(* its own, all of them on the one IncidentJiraSync that main creates.     *)
(* The variables req .. jiraValues are those of the goroutine that takes   *)
(* the next step; other holds the goroutine that waits.                    *)

\* what belongs to one handler goroutine: its request and ResponseWriter,
\* the calls it made, and the locals of webhookHandler,
\* processIncidentUpdate and processComponentField
Local ==
    [req |-> req, pc |-> pc, resp |-> resp, calls |-> calls,
     i |-> i, m |-> m, j |-> j, jiraValues |-> jiraValues]

\* jiraValues kept in the shared IncidentJiraSync instead of line 283's local
ResumeSharedValues(saved) == [saved EXCEPT !.jiraValues = jiraValues]

\* what a goroutine finds when it is scheduled again: its own request and
\* locals as it left them (line 283: jiraValues is a local of each call)
Resume(saved) == saved

\* a v2 event with two values for the impacted field, and a field-updated
\* event for the same issue with a value that is not catalog-backed and one
\* that is, for the responsible field
ConcurrentRequests ==
    { [method |-> "POST", body |-> "json", payload |-> p] : p \in
        { Payload(EventUpdatedV2,
                  SubObject("PIN-7", <<[CustomField |-> [Name |-> ImpactedName],
                                        Values |-> <<Backed("c1"), Backed("c2")>>]>>)),
          Payload(EventFieldUpdated,
                  SubObject("PIN-7", <<[CustomField |-> [Name |-> ResponsibleName],
                                        Values |-> <<[ValueCatalogEntry |-> <<>>],
                                                     Backed("c2")>>]>>)) } }

InitConcurrent ==
    /\ cfg = DefaultConfig
    /\ req \in ConcurrentRequests
    /\ pc = "start"
    /\ resp = NoResponse
    /\ calls = <<>>
    /\ i = 1
    /\ m = 1
    /\ j = 1
    /\ jiraValues = <<>>
    /\ arg = <<>>
    /\ ret = Err
    /\ other \in [req : ConcurrentRequests, pc : {"start"}, resp : {NoResponse},
                  calls : {<<>>}, i : {1}, m : {1}, j : {1}, jiraValues : {<<>>}]

\* the scheduler takes the running goroutine off and puts the waiting one on
Switch ==
    /\ other # NoHandler
    /\ other' = Local
    /\ req' = Resume(other).req
    /\ pc' = Resume(other).pc
    /\ resp' = Resume(other).resp
    /\ calls' = Resume(other).calls
    /\ i' = Resume(other).i
    /\ m' = Resume(other).m
    /\ j' = Resume(other).j
    /\ jiraValues' = Resume(other).jiraValues
    /\ UNCHANGED <<cfg, arg, ret>>

NextConcurrent ==
    \/ WebhookHandler
    \/ LoopEnd
    \/ CheckName
    \/ SkipValue
    \/ ResolveValue
    \/ UpdateField
    \/ Fallback
    \/ Switch

SpecConcurrent == InitConcurrent /\ [][NextConcurrent]_vars

----------------------------------------------------------------------------
(* The Reference Extractor on its own: every object key over KeyAlphabet   *)
(* up to MaxKeyLen characters, and the keys named in the documentation     *)

KeyAlphabet == {"0", "7", "-", "+", "A"}

\* 2^63 - 1, 2^63 and 2^64 as digit strings, and a key ending in 2^64
KeyMaxInt == MaxInt64Digits
KeyMaxIntPlus1 == [MaxInt64Digits EXCEPT ![Len(MaxInt64Digits)] = "8"]
KeyTwoTo64 ==
    <<"1","8","4","4","6","7","4","4","0","7","3","7","0","9","5","5","1","6","1","6">>

KeyInputs ==
    SeqsUpTo(KeyAlphabet, MaxKeyLen)
    \cup {KeyPIN3, KeySUP, KeyNOHYPHEN, Key42,
          KeyMaxInt, KeyMaxIntPlus1, <<"-">> \o KeyMaxIntPlus1, <<"+">> \o KeyMaxIntPlus1,
          KeyTwoTo64, <<"0", "0">> \o KeyMaxInt, <<"A", "-">> \o KeyTwoTo64}

\* the handler's variables while a function is run on its own
Idle ==
    /\ cfg = DefaultConfig
    /\ req = [method |-> "GET", body |-> "json", payload |-> EmptyPayload]
    /\ resp = NoResponse
    /\ calls = <<>>
    /\ i = 1
    /\ m = 1
    /\ j = 1
    /\ jiraValues = <<>>

InitExtract ==
    /\ Idle
    /\ pc = "call"
    /\ arg \in KeyInputs
    /\ ret = Err
    /\ other = NoHandler

Extract ==
    /\ pc = "call"
    /\ ret' = extractJiraObjectID(arg)
    /\ pc' = "return"
    /\ UNCHANGED <<cfg, req, resp, calls, i, m, j, jiraValues, arg, other>>

NextExtract == Extract

SpecExtract == InitExtract /\ [][NextExtract]_vars

----------------------------------------------------------------------------
(* The Catalog Resolver on its own: every answer of the catalog API built  *)
(* from the pools below                                                    *)

AttrIDs == {"", "a1", "a2"}
AttrNames == {NameObjectKey, NameOBJECTKEY, NameObjectKeys, NameName}
Literals == {KeyPIN3, <<>>}

\* catalog_entry.attribute_values: a literal for some of the attribute ids
AttrValueMaps == UNION { [ids -> Literals] : ids \in SUBSET AttrIDs }

CatalogResponses ==
    {TransportError}
    \cup { [transportOK |-> TRUE, StatusCode |-> st, decodable |-> FALSE] @@ NoBody
           : st \in {StatusOK, 201, 404} }
    \cup [transportOK : {TRUE}, StatusCode : {StatusOK, 201, 404}, decodable : {TRUE},
          Attributes : SeqsUpTo([ID : AttrIDs, Name : AttrNames], MaxAttrs),
          AttributeValues : AttrValueMaps]

InitCatalog ==
    /\ Idle
    /\ pc = "call"
    /\ arg \in [id : {"c1", "%zz"}, r : CatalogResponses]
    /\ ret = Err
    /\ other = NoHandler

Resolve ==
    /\ pc = "call"
    /\ ret' = getCatalogEntryObjectKey(arg.id, arg.r)
    /\ pc' = "return"
    /\ UNCHANGED <<cfg, req, resp, calls, i, m, j, jiraValues, arg, other>>

NextCatalog == Resolve

SpecCatalog == InitCatalog /\ [][NextCatalog]_vars

----------------------------------------------------------------------------
(* The Value Formatter on its own: one numeric id formatted MaxFormatCalls *)
(* times under one configuration, each time with any catalog entry id     *)

FormatWorkspaces == {<<"w", "s", "1">>, <<"9">>}
FormatObjectIDs == SeqsUpTo({"0", "7"}, MaxKeyLen)
FormatCatalogIDs == {"c1", "c2", "c9"}

InitFormat ==
    /\ cfg \in {[DefaultConfig EXCEPT !.JiraWorkspaceID = w] : w \in FormatWorkspaces}
    /\ req = [method |-> "GET", body |-> "json", payload |-> EmptyPayload]
    /\ resp = NoResponse
    /\ calls = <<>>
    /\ i = 1
    /\ m = 1
    /\ j = 1
    /\ jiraValues = <<>>
    /\ pc = "call"
    /\ arg \in [objectID : FormatObjectIDs, catalogEntryIDs : {<<>>}]
    /\ ret = Err
    /\ other = NoHandler

\* line 310-311: one call of the formatter, its result appended
Format ==
    /\ pc = "call"
    /\ \E c \in FormatCatalogIDs :
         /\ arg' = [arg EXCEPT !.catalogEntryIDs = Append(@, c)]
         /\ jiraValues' = Append(jiraValues, formatJiraComponentValue(arg.objectID, c))
    /\ pc' = IF Len(jiraValues) + 1 < MaxFormatCalls THEN "call" ELSE "return"
    /\ UNCHANGED <<cfg, req, resp, calls, i, m, j, ret, other>>

NextFormat == Format

SpecFormat == InitFormat /\ [][NextFormat]_vars

----------------------------------------------------------------------------
(* The Field Updater on its own: one batch write of lines 317-321 with     *)
(* every answer of the pools below                                         *)

UpdateStatusCodes == {StatusOK, 201, 202, StatusNoContent, 301, StatusBadRequest, 401, 404,
                      StatusInternalServerError}
UpdateAnswers ==
    {[transportOK |-> FALSE, StatusCode |-> 0]}
    \cup [transportOK : {TRUE}, StatusCode : UpdateStatusCodes]
UpdateValues ==
    { <<formatJiraComponentValue(<<"3">>, "c1")>>,
      <<formatJiraComponentValue(<<"3">>, "c1"), formatJiraComponentValue(<<"1", "0">>, "c2")>>,
      <<formatJiraComponentValue(<<"1", "0">>, "c2"), formatJiraComponentValue(<<"3">>, "c1"),
        formatJiraComponentValue(<<"3">>, "c1")>> }

InitUpdate ==
    /\ Idle
    /\ pc = "call"
    /\ arg \in [jiraIssueKey : {"PIN-7", "%zz"},
                fieldID : {DefaultConfig.ImpactedComponentJiraFieldID,
                           DefaultConfig.ResponsibleComponentJiraFieldID},
                values : UpdateValues,
                a : UpdateAnswers]
    /\ ret = Err
    /\ other = NoHandler

\* lines 318-326: the batch write and what follows it
Update ==
    /\ pc = "call"
    /\ LET ok == updateJiraCustomField(arg.jiraIssueKey, arg.fieldID, arg.values, arg.a)
       IN  /\ ret' = IF ok THEN Ok(<<>>) ELSE Err
           /\ pc' = IF ShouldRetry(~ok, arg.values) THEN "fallback" ELSE "return"
    /\ UNCHANGED <<cfg, req, resp, calls, i, m, j, jiraValues, arg, other>>

NextUpdate == Update

SpecUpdate == InitUpdate /\ [][NextUpdate]_vars

----------------------------------------------------------------------------
(* Properties of the Reference Extractor (SpecExtract) *)

\* length of the longest suffix of s made of digits only
TrailingDigitCount(s) ==
    CHOOSE n \in 0..Len(s) :
        /\ \A k \in (Len(s) - n + 1)..Len(s) : IsDigit(s[k])
        /\ n < Len(s) => ~IsDigit(s[Len(s) - n])

EndsInHyphenDigits(s) ==
    LET n == TrailingDigitCount(s)
    IN  n >= 1 /\ n < Len(s) /\ s[Len(s) - n] = "-"

TrailingDigits(s) == SubSeq(s, Len(s) - TrailingDigitCount(s) + 1, Len(s))

EntirelyNumeric(s) == s # <<>> /\ AllDigits(s)

\* C9: extractJiraObjectID returns the trailing digit run of a string that
\* ends in a hyphen followed by digits, Invalid for the empty string, and
\* Invalid for every string that neither ends in hyphen-digits nor is made
\* of digits only.
C9_ExtractionRule ==
    pc = "return" =>
        /\ EndsInHyphenDigits(arg) => ret = Ok(TrailingDigits(arg))
        /\ arg = <<>> => ~ret.ok
        /\ ~EndsInHyphenDigits(arg) /\ ~EntirelyNumeric(arg) => ~ret.ok

\* the parts of C9 the code does satisfy
C9_HyphenDigitsAndEmpty ==
    pc = "return" =>
        /\ EndsInHyphenDigits(arg) => ret = Ok(TrailingDigits(arg))
        /\ arg = <<>> => ~ret.ok
        /\ arg = KeySUP => ret = Ok(<<"1", "0">>)
        /\ arg = KeyPIN3 => ret = Ok(<<"3">>)
        /\ arg = Key42 => ret = Ok(Key42)
        /\ arg = KeyNOHYPHEN => ~ret.ok

----------------------------------------------------------------------------
(* Properties of the Catalog Resolver (SpecCatalog) *)

\* a and b are equal up to the case of their letters
EqualFold(a, b) ==
    /\ Len(a) = Len(b)
    /\ \A k \in 1..Len(a) : LowerChar(a[k]) = LowerChar(b[k])

SuccessStatus(st) == st >= 200 /\ st < 300

\* indices of the schema attributes named "object key", in any case
ObjectKeyAttrs(r) ==
    {k \in 1..Len(r.Attributes) : EqualFold(r.Attributes[k].Name, ObjectKeyLiteral)}

\* those of them the entry has a value for
ObjectKeyAttrsWithValue(r) ==
    {k \in ObjectKeyAttrs(r) : r.Attributes[k].ID \in DOMAIN r.AttributeValues}

----------------------------------------------------------------------------
(* Properties of the handler (Spec), stated over the history of upstream   *)
(* calls and the answers they got                                          *)

IsGet(c) == c.op = "GET"
IsPut(c) == c.op = "PUT"

\* the field a write sets and the value list it submits
PutField(c) == CHOOSE f \in DOMAIN c.Fields : TRUE
PutValues(c) == c.Fields[PutField(c)]

\* the ticketing API did not accept the write: no answer, or a status
\* other than 200 OK and 204 No Content
WriteFailed(c) ==
    ~(c.answer.transportOK /\ c.answer.StatusCode \in {200, 204})

\* the request carries a decodable event
WellFormed == req.method = "POST" /\ req.body = "json"

Recognized ==
    req.payload.EventType \in
        {"incident.custom_field_updated", "public_incident.incident_updated_v2"}

\* the sub-object an event of a recognized kind is about
Selected ==
    IF req.payload.EventType = "public_incident.incident_updated_v2"
    THEN req.payload.PublicIncidentUpdatedV2
    ELSE req.payload.Incident

Succeeded == pc = "done" /\ resp = [StatusCode |-> 200, Body |-> "success"]
ServerError == pc = "done" /\ resp.StatusCode = 500

\* calls[k] is a multi-value write that failed
FailedBatchOfMany(k) ==
    /\ IsPut(calls[k])
    /\ Len(PutValues(calls[k])) > 1
    /\ WriteFailed(calls[k])

\* calls[k] is the first write of a field (it follows the field's last
\* lookup) and it failed with a single value
FailedBatchOfOne(k) ==
    /\ IsPut(calls[k])
    /\ k > 1 /\ IsGet(calls[k - 1])
    /\ Len(PutValues(calls[k])) = 1
    /\ WriteFailed(calls[k])

\* calls[k] is the write that decided a field's update, and it failed:
\* a failed retry, or a failed write with nothing to retry
FinallyFailed(k) ==
    /\ IsPut(calls[k])
    /\ WriteFailed(calls[k])
    /\ \/ Len(PutValues(calls[k])) = 1
       \/ k > 1 /\ IsPut(calls[k - 1])

\* C1: a failed multi-value write is followed by exactly one further write,
\* to the same issue and field, carrying only the first value; a failed
\* retry ends the request with the failure, a successful retry does not.
C1_Fallback ==
    \A k \in 1..Len(calls) :
        FailedBatchOfMany(k) =>
            IF k = Len(calls) THEN pc = "fallback"
            ELSE /\ IsPut(calls[k + 1])
                 /\ calls[k + 1].issue = calls[k].issue
                 /\ DOMAIN calls[k + 1].Fields = DOMAIN calls[k].Fields
                 /\ PutValues(calls[k + 1]) = <<PutValues(calls[k])[1]>>
                 /\ k + 2 <= Len(calls) => IsGet(calls[k + 2])
                 /\ IF WriteFailed(calls[k + 1])
                    THEN k + 1 = Len(calls) /\ ServerError
                    ELSE k + 1 = Len(calls) => ~ServerError /\ pc # "fallback"

\* the batch of two distinct values failed, the retry was accepted, and the
\* request ended in success with these two writes
C1_Witness ==
    /\ Succeeded
    /\ Len(calls) >= 2
    /\ FailedBatchOfMany(Len(calls) - 1)
    /\ PutValues(calls[Len(calls) - 1])[1] # PutValues(calls[Len(calls) - 1])[2]
    /\ ~WriteFailed(calls[Len(calls)])
    /\ Len(SelectSeq(calls, IsPut)) = 2

\* C2: a failed write of a one-value list is not retried: it is the last
\* upstream call and the request ends with the failure.
C2_NoRetryForOne ==
    \A k \in 1..Len(calls) :
        FailedBatchOfOne(k) => k = Len(calls) /\ ServerError

\* one resolved value, one failed write, failure
C2_Witness ==
    /\ ServerError
    /\ Len(calls) = 2
    /\ FailedBatchOfOne(2)

\* C3: once a field's update has finally failed, no upstream call follows
\* in this event, whatever entries remain, and the handler answers with
\* the failure.
C3_ShortCircuit ==
    \A k \in 1..Len(calls) :
        FinallyFailed(k) =>
            /\ k = Len(calls)
            /\ ServerError
            /\ resp.Body = "Processing failed"

\* a value of the entry at index n of the selected sub-object is
\* catalog-backed and the entry's name is one of the two mapped names
WouldCall(n) ==
    /\ Selected.CustomFieldEntries[n].CustomField.Name
         \in {cfg.ImpactedComponentFieldName, cfg.ResponsibleComponentFieldName}
    /\ \E v \in 1..Len(Selected.CustomFieldEntries[n].Values) :
         LET e == Selected.CustomFieldEntries[n].Values[v].ValueCatalogEntry
         IN  e # <<>> /\ e[1].ID # ""

\* the retry of the first field failed while a later entry still had a
\* value to look up and write
C3_Witness ==
    /\ ServerError
    /\ Len(calls) >= 2
    /\ FailedBatchOfMany(Len(calls) - 1)
    /\ FinallyFailed(Len(calls))
    /\ \E n \in (i + 1)..Len(Selected.CustomFieldEntries) : WouldCall(n)

\* the object key the lookup c found, and the numeric id extracted from it
LookupKey(c) == getCatalogEntryObjectKey(c.id, c.answer)
NumericID(c) ==
    LET key == LookupKey(c)
    IN  IF key.ok THEN extractJiraObjectID(key.val) ELSE Err

\* the TargetFieldValue of a numeric id n
TargetFieldValue(n) ==
    [id |-> cfg.JiraWorkspaceID \o <<":">> \o n, objectId |-> n]

\* the values a sequence of lookups yields: those that resolved and
\* extracted, formatted, in order
ValuesOf(lookups) ==
    LET ids  == [t \in 1..Len(lookups) |-> NumericID(lookups[t])]
        good == SelectSeq(ids, LAMBDA n : n.ok)
    IN  [t \in 1..Len(good) |-> TargetFieldValue(good[t].val)]

\* the lookups right before calls[k]: the longest run of GETs ending at k - 1
RunBefore(k) ==
    LET g == CHOOSE g \in 1..k :
                 /\ \A n \in g..(k - 1) : IsGet(calls[n])
                 /\ g > 1 => ~IsGet(calls[g - 1])
    IN  SubSeq(calls, g, k - 1)

IsCatalogBacked(v) == v.ValueCatalogEntry # <<>> /\ v.ValueCatalogEntry[1].ID # ""

\* the catalog-backed values among the first n values of the current entry
BackedUpTo(n) ==
    SelectSeq(SubSeq(Selected.CustomFieldEntries[i].Values, 1, n), IsCatalogBacked)

\* C4: while an entry is resolved, every catalog-backed value visited so
\* far has been looked up, in order, whatever became of the values before
\* it, and the list built is exactly the formatted values of the lookups
\* that resolved and extracted; the batch write submits exactly that list
\* (stated of the latest call: every call of the history was the latest).
C4_DropAndContinue ==
    /\ pc = "values" =>
         LET n == Len(BackedUpTo(j - 1))
             mine == SubSeq(calls, Len(calls) - n + 1, Len(calls))
         IN  /\ n <= Len(calls)
             /\ \A t \in 1..n :
                    /\ IsGet(mine[t])
                    /\ mine[t].id = BackedUpTo(j - 1)[t].ValueCatalogEntry[1].ID
             /\ jiraValues = ValuesOf(mine)
    /\ Len(calls) >= 2 /\ IsPut(calls[Len(calls)]) /\ IsGet(calls[Len(calls) - 1]) =>
         PutValues(calls[Len(calls)]) = ValuesOf(RunBefore(Len(calls)))

\* three values of one entry: a catalog miss, then a key with no numeric
\* id, then one that resolves and is written alone
C4_Witness ==
    /\ Len(calls) = 4
    /\ IsPut(calls[4])
    /\ calls[1].answer = NotFound
    /\ calls[2].answer = Found(KeyNOHYPHEN)
    /\ calls[3].answer = Found(KeyPIN3)
    /\ PutValues(calls[4]) = <<TargetFieldValue(<<"3">>)>>

\* C5: an event of a recognized kind whose selected sub-object has no
\* linked issue key causes no upstream call and is answered with the
\* processing failure, whatever entries it carries.
C5_NoLinkedIssue ==
    WellFormed /\ Recognized /\ Selected.ExternalIssueReference.IssueName = ""
        => /\ calls = <<>>
           /\ pc \in {"start", "done"}
           /\ pc = "done" => resp = [StatusCode |-> 500, Body |-> "Processing failed"]

\* such a v2 event, with an entry that would have been looked up, answered
C5_Witness ==
    /\ WellFormed
    /\ req.payload.EventType = "public_incident.incident_updated_v2"
    /\ Selected.ExternalIssueReference.IssueName = ""
    /\ Len(Selected.CustomFieldEntries) >= 1
    /\ WouldCall(1)
    /\ ServerError

\* C6: a well-formed event of any other kind is answered 200 "ignored"
\* without any upstream call, whatever it carries.
C6_Ignored ==
    WellFormed /\ ~Recognized
        => /\ calls = <<>>
           /\ pc \in {"start", "done"}
           /\ pc = "done" => resp = [StatusCode |-> 200, Body |-> "ignored"]

\* an "incident.created" event with a linked issue and a mapped entry
C6_Witness ==
    /\ WellFormed
    /\ req.payload.EventType = "incident.created"
    /\ req.payload.Incident.ExternalIssueReference.IssueName = "PIN-7"
    /\ Len(req.payload.Incident.CustomFieldEntries) >= 1
    /\ req.payload.Incident.CustomFieldEntries[1].CustomField.Name = ImpactedName
    /\ Len(req.payload.Incident.CustomFieldEntries[1].Values) >= 1
    /\ IsCatalogBacked(req.payload.Incident.CustomFieldEntries[1].Values[1])
    /\ pc = "done"
    /\ resp.Body = "ignored"

\* the lookups and the writes of the history, in order
Lookups == SelectSeq(calls, IsGet)
Writes == SelectSeq(calls, IsPut)

\* a field-updated event with a linked issue and exactly one entry, named
\* as the impacted-component mapping is
EndToEndEvent ==
    /\ WellFormed
    /\ req.payload.EventType = "incident.custom_field_updated"
    /\ req.payload.Incident.ExternalIssueReference.IssueName # ""
    /\ Len(req.payload.Incident.CustomFieldEntries) = 1
    /\ req.payload.Incident.CustomFieldEntries[1].CustomField.Name
         = cfg.ImpactedComponentFieldName

\* every lookup made was answered with an object key ending in -n
AllResolve ==
    \A k \in 1..Len(Lookups) :
        LookupKey(Lookups[k]).ok /\ EndsInHyphenDigits(LookupKey(Lookups[k]).val)

\* [{id: "<ws>:n_i", objectId: "n_i"}] for the keys the lookups returned
ExpectedList ==
    [k \in 1..Len(Lookups) |-> TargetFieldValue(TrailingDigits(LookupKey(Lookups[k]).val))]

\* exactly one write, to the linked issue, setting the impacted field to
\* the expected list, and a success response
OneWriteAndSuccess ==
    /\ Len(Writes) = 1
    /\ Writes[1].issue = req.payload.Incident.ExternalIssueReference.IssueName
    /\ Writes[1].Fields = (cfg.ImpactedComponentJiraFieldID :> ExpectedList)
    /\ Succeeded

C8_ResponseMapping ==
    pc = "done" /\ WellFormed /\ Recognized =>
        IF /\ Selected.ExternalIssueReference.IssueName # ""
           /\ \A k \in 1..Len(calls) : ~FinallyFailed(k)
        THEN resp = [StatusCode |-> 200, Body |-> "success"]
        ELSE resp.StatusCode = 500

\* success although one value was a catalog miss and another had no
\* numeric id, and nothing was written
C8_Witness ==
    /\ Succeeded
    /\ WellFormed
    /\ Len(calls) = 2
    /\ calls[1].answer = NotFound
    /\ calls[2].answer = Found(KeyNOHYPHEN)


\* the lookups made for the values of the current entry, once all its
\* values have been visited
EntryLookups ==
    LET n == Len(BackedUpTo(Len(Selected.CustomFieldEntries[i].Values)))
    IN  SubSeq(calls, Len(calls) - n + 1, Len(calls))

\* all values of the current matched entry have been visited and none
\* yielded a TargetFieldValue
EmptyBatch ==
    /\ pc = "values"
    /\ j > Len(Selected.CustomFieldEntries[i].Values)
    /\ \A t \in 1..Len(EntryLookups) : ~NumericID(EntryLookups[t]).ok

\* C11: the step that ends a matched entry none of whose values yielded a
\* TargetFieldValue issues no call, sets no response, and moves on to the
\* next name check of the same event (the other mapping of this entry,
\* then the following entry).
C11_EmptyBatch ==
    [][EmptyBatch =>
          /\ calls' = calls
          /\ resp' = resp
          /\ pc' = "entry"
          /\ <<i', m'>> = IF m = 1 THEN <<i, 2>> ELSE <<i + 1, 1>>]_vars

\* the impacted entry's only value was a catalog miss, nothing was written
\* for it, and the responsible entry after it was looked up, written and
\* the event succeeded
C11_Witness ==
    /\ cfg = DefaultConfig
    /\ WellFormed
    /\ Len(Selected.CustomFieldEntries) = 2
    /\ Selected.CustomFieldEntries[1].CustomField.Name = ImpactedName
    /\ Len(SelectSeq(Selected.CustomFieldEntries[1].Values, IsCatalogBacked)) = 1
    /\ Selected.CustomFieldEntries[2].CustomField.Name = ResponsibleName
    /\ Len(calls) = 3
    /\ calls[1].answer = NotFound
    /\ IsGet(calls[2])
    /\ IsPut(calls[3])
    /\ PutField(calls[3]) = "customfield_10235"
    /\ Succeeded


\* the body of the POST is not a JSON document of an event
Malformed == req.method = "POST" /\ req.body = "malformed"

\* C12: a POST whose body does not parse as an event is answered with the
\* client error 400 "Invalid JSON payload", whatever event kind and entries
\* the decoder left behind, and no upstream call is made.
C12_MalformedInput ==
    Malformed =>
        /\ calls = <<>>
        /\ pc \in {"start", "done"}
        /\ pc = "done" => /\ resp.StatusCode \in 400..499
                          /\ resp = [StatusCode |-> 400, Body |-> "Invalid JSON payload"]

\* rejected although the decoder had filled in a recognized kind, a linked
\* issue and catalog-backed values
C12_Witness ==
    /\ Malformed
    /\ pc = "done"
    /\ resp.StatusCode = 400
    /\ Recognized
    /\ Selected.ExternalIssueReference.IssueName # ""
    /\ WouldCall(1)


----------------------------------------------------------------------------
(* Properties of the Value Formatter (SpecFormat) *)

----------------------------------------------------------------------------
(* Properties of two requests in flight (SpecConcurrent) *)

\* the step is one of the waiting goroutine being scheduled
Scheduled == other' # other

----------------------------------------------------------------------------
(* Further properties of the handler (Spec) *)

\* the catalog ids of the catalog-backed values of a value list, in order
BackedIDs(values) ==
    LET backed == SelectSeq(values, IsCatalogBacked)
    IN  [t \in 1..Len(backed) |-> backed[t].ValueCatalogEntry[1].ID]

\* the name of entry n is the source field name of mapping k (1: impacted,
\* 2: responsible)
Matches(n, k) ==
    Selected.CustomFieldEntries[n].CustomField.Name =
        IF k = 1 THEN cfg.ImpactedComponentFieldName
        ELSE cfg.ResponsibleComponentFieldName

\* the ids to look up when entry n is processed for mapping k
PassIDs(n, k) ==
    IF Matches(n, k) THEN BackedIDs(Selected.CustomFieldEntries[n].Values) ELSE <<>>

\* the ids to look up for the entries before entry n, both mappings each
RECURSIVE IDsBefore(_)
IDsBefore(n) ==
    IF n <= 1 THEN <<>>
    ELSE IDsBefore(n - 1) \o PassIDs(n - 1, 1) \o PassIDs(n - 1, 2)

\* the ids of the catalog-backed values the handler has got past so far:
\* those of the passes completed, and those visited of the pass under way
IDsReached ==
    IDsBefore(i)
    \o (IF m = 2 /\ i <= Len(Selected.CustomFieldEntries) THEN PassIDs(i, 1) ELSE <<>>)
    \o (IF pc \in {"values", "fallback", "done"} /\ i <= Len(Selected.CustomFieldEntries)
        THEN BackedIDs(SubSeq(Selected.CustomFieldEntries[i].Values, 1, j - 1))
        ELSE <<>>)

\* C15, amended: at every point of an event the lookups made are, one for
\* one and in order, the catalog-backed values of the matched entries got
\* past so far, each entry taken once for every mapping it matches,
\* whatever the answers were and whether or not an id occurred before;
\* values that are not catalog-backed and entries that match no mapping
\* contribute none.
C15_OneLookupPerValue ==
    LET lookups == SelectSeq(calls, IsGet)
    IN  [t \in 1..Len(lookups) |-> lookups[t].id] = IDsReached

\* one entry with the values c1, null, c1: c1 was fetched twice, the miss
\* of the first fetch was not repeated, and the second answer was written
C15_Witness ==
    /\ cfg = DefaultConfig
    /\ WellFormed
    /\ Len(Selected.CustomFieldEntries) = 1
    /\ Selected.CustomFieldEntries[1].CustomField.Name = ImpactedName
    /\ Selected.CustomFieldEntries[1].Values
         = <<Backed("c1"), [ValueCatalogEntry |-> <<>>], Backed("c1")>>
    /\ Len(calls) = 3
    /\ calls[1] = LookupCall("c1", NotFound)
    /\ calls[2] = LookupCall("c1", Found(KeyPIN3))
    /\ IsPut(calls[3])
    /\ Succeeded


\* the sub-object the event kind does not select
NonSelected ==
    IF req.payload.EventType = "public_incident.incident_updated_v2"
    THEN req.payload.Incident
    ELSE req.payload.PublicIncidentUpdatedV2

\* the catalog ids a sub-object carries
IDsIn(sub) ==
    UNION { { vals[v].ValueCatalogEntry[1].ID :
                v \in { v \in 1..Len(vals) : vals[v].ValueCatalogEntry # <<>> } } :
            vals \in { sub.CustomFieldEntries[n].Values :
                         n \in 1..Len(sub.CustomFieldEntries) } }

\* C16: for an event of a recognized kind, every lookup fetches an id of
\* the selected sub-object and every write goes to the selected
\* sub-object's issue (stated of the latest call: every call of the
\* history was the latest); a selected sub-object without an issue key or
\* without entries causes no call and ends in the failure, respectively
\* the success, although the other sub-object carries an issue key and a
\* matching entry with a catalog-backed value.
C16_SubObjectSelection ==
    WellFormed /\ Recognized =>
        /\ calls # <<>> /\ IsGet(calls[Len(calls)]) =>
               calls[Len(calls)].id \in IDsIn(Selected)
        /\ calls # <<>> /\ IsPut(calls[Len(calls)]) =>
               calls[Len(calls)].issue = Selected.ExternalIssueReference.IssueName
        /\ Selected.ExternalIssueReference.IssueName = "" =>
               calls = <<>> /\ (pc = "done" => ServerError)
        /\ Selected.ExternalIssueReference.IssueName # "" /\ Selected.CustomFieldEntries = <<>> =>
               calls = <<>> /\ (pc = "done" => Succeeded)

\* a v2 event whose default sub-object carries issue PIN-9 and catalog id
\* c9: c1 of the v2 sub-object was fetched and PIN-7 written, and the
\* event succeeded
C16_Witness ==
    /\ WellFormed
    /\ req.payload.EventType = "public_incident.incident_updated_v2"
    /\ NonSelected.ExternalIssueReference.IssueName = "PIN-9"
    /\ "c9" \in IDsIn(NonSelected)
    /\ Len(calls) = 2
    /\ calls[1].id = "c1"
    /\ IsPut(calls[2])
    /\ calls[2].issue = "PIN-7"
    /\ Succeeded


----------------------------------------------------------------------------
(* Properties of the Field Updater (SpecUpdate) *)

\* the PUT could be sent: its URL parses
RequestSent == arg.jiraIssueKey # "%zz"

\* the ticketing API answered the PUT with 200 OK or 204 No Content
AcceptedUpdate ==
    RequestSent /\ arg.a.transportOK /\ arg.a.StatusCode \in {200, 204}

\* C17: a write attempt succeeds exactly when the ticketing API answered
\* it with 200 or 204; with any other status, with a transport error, or
\* with no request sent at all it fails, and the failure leads to the
\* single-value retry exactly when more than one value was submitted.
C17_WriteOutcome ==
    pc # "call" =>
        /\ ret.ok <=> AcceptedUpdate
        /\ pc = "fallback" <=> ~AcceptedUpdate /\ Len(arg.values) > 1

\* two values answered 201 Created: a failure, and the retry is next
C17_Witness ==
    /\ pc = "fallback"
    /\ ~ret.ok
    /\ arg.a = [transportOK |-> TRUE, StatusCode |-> 201]
    /\ Len(arg.values) = 2


----------------------------------------------------------------------------
(* Further properties of the Reference Extractor (SpecExtract) *)

\* C18: every non-empty string made of decimal digits only is returned
\* unchanged by extractJiraObjectID, whatever its length.
C18_NumericPassThrough ==
    pc = "return" /\ EntirelyNumeric(arg) => ret = Ok(arg)

\* what the code does satisfy: digit strings of at most 18 digits, which
\* lie within the range of int, are returned unchanged
C18_PassThroughInRange ==
    pc = "return" /\ EntirelyNumeric(arg) /\ Len(arg) < Len(MaxInt64Digits) => ret = Ok(arg)


----------------------------------------------------------------------------
(* Further properties of the handler (Spec), continued *)

\* the target field id of mapping k (1: impacted, 2: responsible)
TargetField(k) ==
    IF k = 1 THEN cfg.ImpactedComponentJiraFieldID
    ELSE cfg.ResponsibleComponentJiraFieldID

\* C19: every step that issues a write (the batch write or the retry)
\* addresses it to the linked issue key of the selected sub-object, and its
\* body sets exactly one field, the target field of the mapping under way
\* whose source name the current entry carries, to the list submitted: the
\* whole list built for the batch write, its first value for the retry.
C19_WriteFrame ==
    [][calls' # calls /\ IsPut(calls'[Len(calls')]) =>
          LET w == calls'[Len(calls')]
          IN  /\ calls' = Append(calls, w)
              /\ w.issue = Selected.ExternalIssueReference.IssueName
              /\ DOMAIN w.Fields = {TargetField(m)}
              /\ Matches(i, m)
              /\ w.Fields[TargetField(m)] =
                    IF pc = "fallback" THEN <<jiraValues[1]>> ELSE jiraValues]_vars

\* the impacted field of PIN-7 was written and accepted, then the
\* responsible field of PIN-7 was written, each write with its own field
\* only
C19_Witness ==
    /\ Len(Writes) = 2
    /\ ~WriteFailed(Writes[1])
    /\ Writes[1].issue = "PIN-7"
    /\ DOMAIN Writes[1].Fields = {"customfield_10234"}
    /\ Writes[2].issue = "PIN-7"
    /\ DOMAIN Writes[2].Fields = {"customfield_10235"}
    /\ Len(Writes[1].Fields["customfield_10234"]) = 2


\* for each id of PassIDs(n, k), the pass <<n, k>> it is looked up in
PassOwners(n, k) == [t \in 1..Len(PassIDs(n, k)) |-> <<n, k>>]

RECURSIVE OwnersBefore(_)
OwnersBefore(n) ==
    IF n <= 1 THEN <<>>
    ELSE OwnersBefore(n - 1) \o PassOwners(n - 1, 1) \o PassOwners(n - 1, 2)

\* for each id of IDsReached, the entry and the mapping it is looked up
\* for, in the order of the event: entry by entry, and within one entry
\* the impacted mapping before the responsible one
OwnersReached ==
    OwnersBefore(i)
    \o (IF m = 2 /\ i <= Len(Selected.CustomFieldEntries) THEN PassOwners(i, 1) ELSE <<>>)
    \o (IF pc \in {"values", "fallback", "done"} /\ i <= Len(Selected.CustomFieldEntries)
        THEN [t \in 1..Len(BackedIDs(SubSeq(Selected.CustomFieldEntries[i].Values, 1, j - 1)))
                |-> <<i, m>>]
        ELSE <<>>)

\* C20: the lookups of an event follow the order of its entries, entry by
\* entry and for one entry the impacted mapping before the responsible
\* one: the latest lookup fetches a value of the entry, and for the
\* mapping, whose turn it is in that order, and the latest write sets the
\* field of the mapping its lookups were made for (every call of the
\* history was the latest); and an event that ends in success has looked
\* up every matched entry, for every mapping it matches, however often a
\* field name occurs.
C20_EventOrder ==
    LET lookups == SelectSeq(calls, IsGet)
        owners  == OwnersReached
    IN  /\ Len(lookups) = Len(owners)
        /\ calls # <<>> =>
              LET n == owners[Len(owners)][1]
                  k == owners[Len(owners)][2]
              IN  IF IsGet(calls[Len(calls)])
                  THEN /\ Matches(n, k)
                       /\ calls[Len(calls)].id
                            \in IDsIn([CustomFieldEntries |-> <<Selected.CustomFieldEntries[n]>>])
                  ELSE PutField(calls[Len(calls)]) = TargetField(k)
        /\ Succeeded /\ WellFormed /\ Recognized =>
              [t \in 1..Len(lookups) |-> lookups[t].id]
                  = IDsBefore(Len(Selected.CustomFieldEntries) + 1)

\* both mappings configured with the name of the one entry of the event:
\* its value was looked up and the impacted field written, then looked up
\* again and the responsible field written
C20_Witness ==
    /\ cfg.ResponsibleComponentFieldName = cfg.ImpactedComponentFieldName
    /\ WellFormed
    /\ Len(Selected.CustomFieldEntries) = 1
    /\ Len(calls) = 4
    /\ IsGet(calls[1])
    /\ IsPut(calls[2]) /\ PutField(calls[2]) = "customfield_10234"
    /\ IsGet(calls[3]) /\ calls[3].id = calls[1].id
    /\ IsPut(calls[4]) /\ PutField(calls[4]) = "customfield_10235"
    /\ Succeeded


----------------------------------------------------------------------------
(* What a success response means (Spec) *)

\* calls[k] is the last write of its entry: no write follows it directly
LastWriteOfEntry(k) ==
    /\ IsPut(calls[k])
    /\ k < Len(calls) => IsGet(calls[k + 1])

\* calls[k] is the retry of the batch write before it
IsRetry(k) == k > 1 /\ IsPut(calls[k]) /\ IsPut(calls[k - 1])

\* the lookups made after the last write of the history
TrailingLookups ==
    LET puts == { k \in 1..Len(calls) : IsPut(calls[k]) }
        from == IF puts = {} THEN 1 ELSE (CHOOSE k \in puts : \A l \in puts : l <= k) + 1
    IN  SubSeq(calls, from, Len(calls))

\* C21: when the handler has answered "success", every run of lookups that
\* resolved at least one value is followed by a write; the last write of
\* each entry was accepted and carried the whole list resolved for the
\* entry, or, as the retry of a failed write of that whole list, exactly
\* its first element; after an accepted retry no further write is made for
\* the entry, so the other resolved values of the entry are written by no
\* call, and the response is success all the same.
C21_MeaningOfSuccess ==
    Succeeded =>
        /\ ValuesOf(TrailingLookups) = <<>>
        /\ \A k \in 1..Len(calls) :
              LastWriteOfEntry(k) =>
                  /\ ~WriteFailed(calls[k])
                  /\ IF IsRetry(k)
                     THEN LET resolved == ValuesOf(RunBefore(k - 1))
                          IN  /\ WriteFailed(calls[k - 1])
                              /\ PutValues(calls[k - 1]) = resolved
                              /\ Len(resolved) > 1
                              /\ PutValues(calls[k]) = <<resolved[1]>>
                              /\ calls[k].issue = calls[k - 1].issue
                              /\ DOMAIN calls[k].Fields = DOMAIN calls[k - 1].Fields
                     ELSE /\ PutValues(calls[k]) = ValuesOf(RunBefore(k))
                          /\ PutValues(calls[k]) # <<>>

\* the two values of the impacted entry were refused together, the first
\* alone was accepted, the second was never written, the responsible entry
\* was written after it, and the answer is success
C21_Witness ==
    /\ Succeeded
    /\ Len(calls) = 6
    /\ IsGet(calls[1]) /\ IsGet(calls[2])
    /\ IsPut(calls[3]) /\ WriteFailed(calls[3]) /\ Len(PutValues(calls[3])) = 2
    /\ PutValues(calls[3])[1] # PutValues(calls[3])[2]
    /\ IsPut(calls[4]) /\ ~WriteFailed(calls[4])
    /\ PutValues(calls[4]) = <<PutValues(calls[3])[1]>>
    /\ IsGet(calls[5])
    /\ IsPut(calls[6])
    /\ PutField(calls[6]) # PutField(calls[4])


----------------------------------------------------------------------------
(* The output of the Reference Extractor (SpecExtract) *)

\* C22: every value extractJiraObjectID returns successfully is a
\* non-empty string of decimal digits only.
C22_DigitsOnlyOutput ==
    pc = "return" /\ ret.ok => ret.val # <<>> /\ AllDigits(ret.val)

\* what the code does satisfy: the value returned for a key that ends in a
\* hyphen followed by digits, or that is made of digits only, is a
\* non-empty string of digits
C22_DigitsForHyphenOrDigitKeys ==
    pc = "return" /\ ret.ok /\ (EndsInHyphenDigits(arg) \/ EntirelyNumeric(arg))
        => ret.val # <<>> /\ AllDigits(ret.val)


----------------------------------------------------------------------------
(* Termination and bounds of the handling of one event (SpecLive) *)

\* the values the event carries in its selected sub-object
RECURSIVE ValueCount(_)
ValueCount(n) ==
    IF n = 0 THEN 0
    ELSE ValueCount(n - 1) + Len(Selected.CustomFieldEntries[n].Values)

\* the pairs of an entry and a mapping whose source name the entry carries
MatchingPairs ==
    { <<n, k>> \in (1..Len(Selected.CustomFieldEntries)) \X {1, 2} : Matches(n, k) }

\* a response has been written
Responded == pc = "done" /\ resp # [StatusCode |-> 0, Body |-> "none"]

\* the response is written once, by the step that ends the handling, and
\* nothing happens after it
RespondsOnce ==
    [][/\ pc # "done"
       /\ resp = [StatusCode |-> 0, Body |-> "none"]
       /\ resp' # resp <=> pc' = "done"]_vars

\* every step moves forward: to the next value of the entry under way, to
\* a later stage of the same entry and mapping, to the second mapping of
\* the same entry, or to the next entry
NoRevisit ==
    [][\/ /\ <<i', m'>> = <<i, m>>
          /\ \/ pc = "values" /\ pc' = "values" /\ j' = j + 1
             \/ <<pc, pc'>> \in {<<"start", "entry">>, <<"start", "done">>,
                                 <<"entry", "values">>, <<"entry", "done">>,
                                 <<"values", "fallback">>, <<"values", "done">>,
                                 <<"fallback", "done">>}
       \/ pc' = "entry" /\ i' = i /\ m = 1 /\ m' = 2
       \/ pc' = "entry" /\ i' = i + 1 /\ m = 2 /\ m' = 1]_vars

\* no three writes in a row (stated of the latest calls), and no more than
\* two writes for each matching pair in all
AtMostTwoWritesPerPair ==
    /\ Len(calls) >= 3 =>
          ~(IsPut(calls[Len(calls)]) /\ IsPut(calls[Len(calls) - 1])
                                     /\ IsPut(calls[Len(calls) - 2]))
    /\ Len(SelectSeq(calls, IsPut)) <= 2 * Cardinality(MatchingPairs)

\* C23 as stated: the handling ends with exactly one response, after at
\* most one lookup per value of the event and at most two writes per
\* matching pair, and no entry or value is visited again.
C23_BoundedAsStated ==
    /\ <>Responded
    /\ RespondsOnce
    /\ NoRevisit
    /\ [](WellFormed /\ Recognized =>
            /\ Len(SelectSeq(calls, IsGet)) <= ValueCount(Len(Selected.CustomFieldEntries))
            /\ AtMostTwoWritesPerPair)

\* C23, amended: the same, with at most one lookup per value for each
\* mapping the value's entry matches.
C23_BoundedTermination ==
    /\ <>Responded
    /\ RespondsOnce
    /\ NoRevisit
    /\ [](/\ calls # <<>> => WellFormed /\ Recognized
          /\ WellFormed /\ Recognized =>
               /\ Len(SelectSeq(calls, IsGet))
                    <= Len(IDsBefore(Len(Selected.CustomFieldEntries) + 1))
               /\ Len(IDsBefore(Len(Selected.CustomFieldEntries) + 1))
                    <= 2 * ValueCount(Len(Selected.CustomFieldEntries))
               /\ AtMostTwoWritesPerPair)

\* an event of two entries and three values answered after the most
\* calls it can cause: every value looked up once, two writes for the
\* entry with two values and one for the other
C23_Witness ==
    /\ Responded
    /\ WellFormed
    /\ Len(Selected.CustomFieldEntries) = 2
    /\ Cardinality(MatchingPairs) = 2
    /\ ValueCount(2) = 3
    /\ Len(SelectSeq(calls, IsGet)) = 3
    /\ Len(SelectSeq(calls, IsPut)) = 3


----------------------------------------------------------------------------
(* C15 read as one lookup per value of the event (Spec) *)

\* the ids of the catalog-backed values of the matched entries before
\* entry n, each entry taken once
RECURSIVE IDsOnceBefore(_)
IDsOnceBefore(n) ==
    IF n <= 1 THEN <<>>
    ELSE IDsOnceBefore(n - 1)
         \o (IF Matches(n - 1, 1) \/ Matches(n - 1, 2)
             THEN BackedIDs(Selected.CustomFieldEntries[n - 1].Values)
             ELSE <<>>)

\* C15 as stated: an event handled to its end without a short-circuit has
\* issued exactly one lookup for each catalog-backed value of each matched
\* entry, in value order.
C15_OneLookupAsStated ==
    Succeeded /\ WellFormed /\ Recognized =>
        LET lookups == SelectSeq(calls, IsGet)
        IN  [t \in 1..Len(lookups) |-> lookups[t].id]
                = IDsOnceBefore(Len(Selected.CustomFieldEntries) + 1)

====
